---- MODULE Spec2Model ----
(***************************************************************************)
(* Model of the model version manager (src/src/model_manager.py): the      *)
(* registry held in ModelVersionManager.metadata, its persisted copy       *)
(* metadata.json, the incremental training table, the artifact files, and  *)
(* the operations switch_version, delete_version and retrain_incremental.  *)
(*                                                                         *)
(* A version name is a sequence of one-character strings, so that the      *)
(* name arithmetic of _get_next_version_number (startswith, replace, int,  *)
(* f"V{n}") is computed and not assumed.                                   *)
(*                                                                         *)
(* Every step of _do_retrain may raise (its try/except covers them all);   *)
(* a write that raises (to_csv, joblib.dump, json.dump) is modelled as     *)
(* leaving its target file as it was.  switch_version and delete_version   *)
(* have no exception handling and are modelled without I/O faults.         *)
(* Calls run one at a time, each to completion.                            *)
(***************************************************************************)
EXTENDS Integers, Sequences, FiniteSets, TLC

(* ------------------------------ bounds -------------------------------- *)

\* Largest number of rows the incremental table may reach in the model.
MaxRows == 2

(* ---------------------------- constants ------------------------------- *)

\* Row count of the base dataset Data-set/train_dataset.csv, as the seed
\* record of "Original" states it.
BaseCount == 2293

(* ------------------------------ names --------------------------------- *)

Original == <<"O", "r", "i", "g", "i", "n", "a", "l">>

\* A name no operation ever registers ("does-not-exist").
NoSuchVersion == <<"n", "o", "p", "e">>

DigitChars == <<"0", "1", "2", "3", "4", "5", "6", "7", "8", "9">>

IsDigit(c) == \E i \in 1..10 : DigitChars[i] = c

DigitVal(c) == (CHOOSE i \in 1..10 : DigitChars[i] = c) - 1

\* str(n) for n >= 0, as the f-string of _get_next_version_number formats it.
RECURSIVE StrNat(_)
StrNat(n) ==
    IF n < 10 THEN <<DigitChars[n + 1]>>
    ELSE StrNat(n \div 10) \o <<DigitChars[(n % 10) + 1]>>

\* f"V{n}"
FormatV(n) == <<"V">> \o StrNat(n)

\* version_name.startswith("V")
StartsWithV(s) == Len(s) > 0 /\ s[1] = "V"

\* version_name.replace("V", ""): every "V" is removed, not only the first.
ReplaceV(s) == SelectSeq(s, LAMBDA c : c # "V")

\* Whether int(s) succeeds: an optional sign followed by digits.
IsIntLiteral(s) ==
    LET body == IF Len(s) > 0 /\ s[1] \in {"+", "-"} THEN Tail(s) ELSE s
    IN  Len(body) > 0 /\ \A i \in 1..Len(body) : IsDigit(body[i])

RECURSIVE DigitsVal(_)
DigitsVal(s) ==
    IF s = <<>> THEN 0
    ELSE 10 * DigitsVal(SubSeq(s, 1, Len(s) - 1)) + DigitVal(s[Len(s)])

\* int(s), for s with IsIntLiteral(s).
IntOf(s) ==
    IF s[1] = "-" THEN 0 - DigitsVal(Tail(s))
    ELSE IF s[1] = "+" THEN DigitsVal(Tail(s))
    ELSE DigitsVal(s)

SetMax(S) == CHOOSE m \in S : \A x \in S : x <= m

(* ------------------- the versions mapping (a dict) --------------------- *)
\* A Python dict keeps insertion order: the mapping is a sequence of
\* entries [name, info] with pairwise distinct names.

Keys(vs) == {vs[i].name : i \in DOMAIN vs}

Has(vs, n) == n \in Keys(vs)

Info(vs, n) == vs[CHOOSE i \in DOMAIN vs : vs[i].name = n].info

\* vs[n] = info: an existing key keeps its position, a new key goes last.
Put(vs, n, info) ==
    IF Has(vs, n)
    THEN [i \in DOMAIN vs |-> IF vs[i].name = n THEN [name |-> n, info |-> info] ELSE vs[i]]
    ELSE Append(vs, [name |-> n, info |-> info])

\* del vs[n]
Del(vs, n) == SelectSeq(vs, LAMBDA e : e.name # n)

(* --------------------------- artifact files --------------------------- *)

ModelsDir == "models"
VersionsDir == "models/versions"

Path(dir, file) == [dir |-> dir, file |-> file]

\* f"model_{name}.joblib", f"scaler_{name}.joblib"
ModelFilename(name) == <<"model_">> \o name \o <<".joblib">>
ScalerFilename(name) == <<"scaler_">> \o name \o <<".joblib">>

\* What a fitted object is: which kind, and the number of rows it was fitted on.
Fitted(kind, rows) == [kind |-> kind, rows |-> rows]

Exists(fs, p) == p \in DOMAIN fs

\* joblib.dump(obj, p)
Dump(fs, p, obj) == [q \in DOMAIN fs \cup {p} |-> IF q = p THEN obj ELSE fs[q]]

\* p.unlink()
Unlink(fs, p) == [q \in DOMAIN fs \ {p} |-> fs[q]]

(* ------------------------- the registry state -------------------------- *)

\* "training_samples" of the seed record of "Original".
OriginalTrainingSamples == 2293

OriginalInfo ==
    [training_samples |-> OriginalTrainingSamples,
     model_path |-> <<"model.joblib">>,
     scaler_path |-> <<"scaler.joblib">>]

\* The metadata a manager starts from when metadata.json does not exist.
SeedMetadata ==
    [current_version |-> Original,
     versions |-> <<[name |-> Original, info |-> OriginalInfo]>>]

NoMetadataFile == [exists |-> FALSE, content |-> [current_version |-> <<>>, versions |-> <<>>]]

\* _save_metadata: metadata.json is rewritten wholesale with the metadata.
save_metadata(md) == [exists |-> TRUE, content |-> md]

\* _load_metadata seeding "Original" without the _save_metadata of line 53.
load_metadata_unsaved(mf) ==
    IF mf.exists
    THEN [metadata |-> mf.content, metadata_file |-> mf]
    ELSE [metadata |-> SeedMetadata, metadata_file |-> mf]

\* _load_metadata: read metadata.json, or seed "Original" and save it.
load_metadata(mf) ==
    IF mf.exists
    THEN [metadata |-> mf.content, metadata_file |-> mf]
    ELSE [metadata |-> SeedMetadata, metadata_file |-> save_metadata(SeedMetadata)]

get_current_version(md) == md.current_version

(* ------------------------ the incremental table ------------------------ *)

FeatureColumns ==
    <<"ph", "Hardness", "Solids", "Chloramines", "Sulfate",
      "Conductivity", "Organic_carbon", "Trihalomethanes", "Turbidity">>

Columns == FeatureColumns \o <<"Potability">>

ColumnSet == {Columns[j] : j \in DOMAIN Columns}

NoTableFile == [exists |-> FALSE, lines |-> <<>>]

\* DataFrame.to_csv(index=False): a header line, then one line of cells per row.
ToCsv(df) ==
    <<Columns>> \o [i \in 1..Len(df) |-> [j \in DOMAIN Columns |-> df[i][Columns[j]]]]

\* pd.read_csv: the rows under the header, each keyed by the header's names.
ReadCsv(lines) ==
    LET header == lines[1]
        col(c) == CHOOSE j \in DOMAIN header : header[j] = c
    IN  [i \in 1..(Len(lines) - 1) |->
            [c \in {header[j] : j \in DOMAIN header} |-> lines[i + 1][col(c)]]]

\* The rows of the incremental table: read from the file, or none when it does
\* not exist (the empty DataFrame of lines 185-189).
IncrementalRows(tf) == IF tf.exists THEN ReadCsv(tf.lines) ELSE <<>>

\* Number of rows persisted in the incremental table.
TableRows(tf) == IF tf.exists THEN Len(tf.lines) - 1 ELSE 0

\* new_data.get(k, 0)
Get(d, k, default) == IF k \in DOMAIN d THEN d[k] ELSE default

\* new_row of _do_retrain
NewRow(new_data, actual_label) ==
    [c \in ColumnSet |->
        IF c = "Potability" THEN actual_label ELSE Get(new_data, c, "0")]

(* --------------------- operations of the manager ----------------------- *)
\* Each operation is an operator over the manager's state
\*   s = [metadata, metadata_file, training_data_file, files]
\* giving the state after the call and what the call returned.

\* The None default of load_model_and_scaler's version_name.
None == <<>>

\* sort_key of list_versions
sort_key(version) ==
    IF version = Original THEN <<0, 0>>
    ELSE IF IsIntLiteral(ReplaceV(version)) THEN <<1, IntOf(ReplaceV(version))>>
    ELSE <<2, 0>>

KeyLess(a, b) == a[1] < b[1] \/ (a[1] = b[1] /\ a[2] < b[2])

\* list.sort(key=sort_key) is stable: an entry goes after every entry whose key
\* is not greater than its own.
RECURSIVE StableSort(_)
StableSort(vs) ==
    IF vs = <<>> THEN <<>>
    ELSE LET init == StableSort(SubSeq(vs, 1, Len(vs) - 1))
             e == vs[Len(vs)]
             k == Cardinality({i \in DOMAIN init :
                     ~KeyLess(sort_key(e.version), sort_key(init[i].version))})
         IN  SubSeq(init, 1, k) \o <<e>> \o SubSeq(init, k + 1, Len(init))

\* list_versions without the sort of line 89.
list_versions_unsorted(md) ==
    [i \in DOMAIN md.versions |->
        [version |-> md.versions[i].name,
         training_samples |-> md.versions[i].info.training_samples,
         is_current |-> md.versions[i].name = md.current_version]]

list_versions(md) ==
    StableSort([i \in DOMAIN md.versions |->
        [version |-> md.versions[i].name,
         training_samples |-> md.versions[i].info.training_samples,
         is_current |-> md.versions[i].name = md.current_version]])

\* The names list_versions returns.
ListedNames(md) == {list_versions(md)[i].version : i \in DOMAIN list_versions(md)}

\* switch_version without the membership test of line 94.
switch_version_unguarded(s, version_name) ==
    LET md == [s.metadata EXCEPT !.current_version = version_name]
    IN  [s |-> [s EXCEPT !.metadata = md, !.metadata_file = save_metadata(md)],
         ret |-> "True"]

\* switch_version reporting success without moving the pointer.
switch_version_unmoved(s, version_name) ==
    IF ~Has(s.metadata.versions, version_name)
    THEN [s |-> s, ret |-> "False"]
    ELSE [s |-> [s EXCEPT !.metadata_file = save_metadata(s.metadata)], ret |-> "True"]

\* switch_version without the _save_metadata of line 98.
switch_version_unsaved(s, version_name) ==
    IF ~Has(s.metadata.versions, version_name)
    THEN [s |-> s, ret |-> "False"]
    ELSE [s |-> [s EXCEPT !.metadata.current_version = version_name], ret |-> "True"]

switch_version(s, version_name) ==
    IF ~Has(s.metadata.versions, version_name)
    THEN [s |-> s, ret |-> "False"]
    ELSE LET md == [s.metadata EXCEPT !.current_version = version_name]
         IN  [s |-> [s EXCEPT !.metadata = md, !.metadata_file = save_metadata(md)],
              ret |-> "True"]

NoObject == Fitted("none", 0)

\* load_model_and_scaler taking the versions directory for every version, the
\* test of line 112 left out.
load_model_and_scaler_versions_dir(s, version_name_arg) ==
    LET version_name == IF version_name_arg = None
                        THEN s.metadata.current_version ELSE version_name_arg
    IN  IF ~Has(s.metadata.versions, version_name)
        THEN [ok |-> FALSE, model |-> NoObject, scaler |-> NoObject]
        ELSE LET version_info == Info(s.metadata.versions, version_name)
                 model_path == Path(VersionsDir, version_info.model_path)
                 scaler_path == Path(VersionsDir, version_info.scaler_path)
             IN  IF Exists(s.files, model_path) /\ Exists(s.files, scaler_path)
                 THEN [ok |-> TRUE, model |-> s.files[model_path],
                       scaler |-> s.files[scaler_path]]
                 ELSE [ok |-> FALSE, model |-> NoObject, scaler |-> NoObject]

load_model_and_scaler(s, version_name_arg) ==
    LET version_name == IF version_name_arg = None
                        THEN s.metadata.current_version ELSE version_name_arg
    IN  IF ~Has(s.metadata.versions, version_name)
        THEN [ok |-> FALSE, model |-> NoObject, scaler |-> NoObject]
        ELSE LET version_info == Info(s.metadata.versions, version_name)
                 dir == IF version_name = Original THEN ModelsDir ELSE VersionsDir
                 model_path == Path(dir, version_info.model_path)
                 scaler_path == Path(dir, version_info.scaler_path)
             IN  IF Exists(s.files, model_path) /\ Exists(s.files, scaler_path)
                 THEN [ok |-> TRUE, model |-> s.files[model_path],
                       scaler |-> s.files[scaler_path]]
                 ELSE [ok |-> FALSE, model |-> NoObject, scaler |-> NoObject]

\* max(version_nums) without the "+ 1" of line 135.
get_next_version_number_max(md) ==
    LET version_nums ==
            {IntOf(ReplaceV(n)) :
                n \in {k \in Keys(md.versions) :
                          StartsWithV(k) /\ IsIntLiteral(ReplaceV(k))}}
        next_num == IF version_nums # {} THEN SetMax(version_nums) ELSE 1
    IN  FormatV(next_num)

\* The prefix tested in lower case (startswith("v")): no name passes, and the
\* list of numbers is always empty.
get_next_version_number_lowercase(md) ==
    LET version_nums ==
            {IntOf(ReplaceV(n)) :
                n \in {k \in Keys(md.versions) :
                          Len(k) > 0 /\ k[1] = "v" /\ IsIntLiteral(ReplaceV(k))}}
        next_num == IF version_nums # {} THEN SetMax(version_nums) + 1 ELSE 1
    IN  FormatV(next_num)

get_next_version_number(md) ==
    LET version_nums ==
            {IntOf(ReplaceV(n)) :
                n \in {k \in Keys(md.versions) :
                          StartsWithV(k) /\ IsIntLiteral(ReplaceV(k))}}
        next_num == IF version_nums # {} THEN SetMax(version_nums) + 1 ELSE 1
    IN  FormatV(next_num)

\* delete_version making "Original" current after the entry is removed.
delete_version_resets_current(s, version_name) ==
    IF version_name = Original THEN [s |-> s, ret |-> "False"]
    ELSE IF version_name = s.metadata.current_version THEN [s |-> s, ret |-> "False"]
    ELSE IF ~Has(s.metadata.versions, version_name) THEN [s |-> s, ret |-> "False"]
    ELSE LET version_info == Info(s.metadata.versions, version_name)
             model_path == Path(VersionsDir, version_info.model_path)
             scaler_path == Path(VersionsDir, version_info.scaler_path)
             files2 == Unlink(Unlink(s.files, model_path), scaler_path)
             md == [current_version |-> Original,
                    versions |-> Del(s.metadata.versions, version_name)]
         IN  [s |-> [s EXCEPT !.files = files2, !.metadata = md,
                              !.metadata_file = save_metadata(md)],
              ret |-> "True"]

\* delete_version without the test against current_version of line 329.
delete_version_current(s, version_name) ==
    IF version_name = Original THEN [s |-> s, ret |-> "False"]
    ELSE IF ~Has(s.metadata.versions, version_name) THEN [s |-> s, ret |-> "False"]
    ELSE LET version_info == Info(s.metadata.versions, version_name)
             model_path == Path(VersionsDir, version_info.model_path)
             scaler_path == Path(VersionsDir, version_info.scaler_path)
             files2 == Unlink(Unlink(s.files, model_path), scaler_path)
             md == [s.metadata EXCEPT !.versions = Del(@, version_name)]
         IN  [s |-> [s EXCEPT !.files = files2, !.metadata = md,
                              !.metadata_file = save_metadata(md)],
              ret |-> "True"]

\* delete_version removing the files but not the entry (line 346 missing).
delete_version_keeps_entry(s, version_name) ==
    IF version_name = Original THEN [s |-> s, ret |-> "False"]
    ELSE IF version_name = s.metadata.current_version THEN [s |-> s, ret |-> "False"]
    ELSE IF ~Has(s.metadata.versions, version_name) THEN [s |-> s, ret |-> "False"]
    ELSE LET version_info == Info(s.metadata.versions, version_name)
             model_path == Path(VersionsDir, version_info.model_path)
             scaler_path == Path(VersionsDir, version_info.scaler_path)
             files2 == Unlink(Unlink(s.files, model_path), scaler_path)
         IN  [s |-> [s EXCEPT !.files = files2,
                              !.metadata_file = save_metadata(s.metadata)],
              ret |-> "True"]

\* delete_version without the test against "Original" of line 326.
delete_version_any(s, version_name) ==
    IF version_name = s.metadata.current_version THEN [s |-> s, ret |-> "False"]
    ELSE IF ~Has(s.metadata.versions, version_name) THEN [s |-> s, ret |-> "False"]
    ELSE LET version_info == Info(s.metadata.versions, version_name)
             model_path == Path(VersionsDir, version_info.model_path)
             scaler_path == Path(VersionsDir, version_info.scaler_path)
             files2 == Unlink(Unlink(s.files, model_path), scaler_path)
             md == [s.metadata EXCEPT !.versions = Del(@, version_name)]
         IN  [s |-> [s EXCEPT !.files = files2, !.metadata = md,
                              !.metadata_file = save_metadata(md)],
              ret |-> "True"]

delete_version(s, version_name) ==
    IF version_name = Original THEN [s |-> s, ret |-> "False"]
    ELSE IF version_name = s.metadata.current_version THEN [s |-> s, ret |-> "False"]
    ELSE IF ~Has(s.metadata.versions, version_name) THEN [s |-> s, ret |-> "False"]
    ELSE LET version_info == Info(s.metadata.versions, version_name)
             model_path == Path(VersionsDir, version_info.model_path)
             scaler_path == Path(VersionsDir, version_info.scaler_path)
             \* "if exists: unlink", twice
             files2 == Unlink(Unlink(s.files, model_path), scaler_path)
             md == [s.metadata EXCEPT !.versions = Del(@, version_name)]
         IN  [s |-> [s EXCEPT !.files = files2, !.metadata = md,
                              !.metadata_file = save_metadata(md)],
              ret |-> "True"]

(* ------------------------------ retraining ----------------------------- *)

\* The steps of _do_retrain that may raise; "none" is a run in which none does.
\* Every exception is caught at the end of _do_retrain and raised again as RuntimeError.
Faults ==
    {"none", "load", "read_table", "append", "base_read", "fit", "evaluate",
     "dump_model", "dump_scaler", "persist"}

\* The table restarted from the new row alone.
ConcatRow_restart(incremental_df, new_row) == <<new_row>>

\* pd.concat([incremental_df, pd.DataFrame([new_row])], ignore_index=True)
ConcatRow(incremental_df, new_row) == Append(incremental_df, new_row)

\* The length of the incremental table taken for that of the combined one.
CombinedLen_incremental(original_len, incremental_df) == Len(incremental_df)

\* len(combined_df), combined_df = pd.concat([original_train, incremental_df])
CombinedLen(original_len, incremental_df) == original_len + Len(incremental_df)

\* The record _do_retrain stores under the new version name.
NewVersionInfo(combined_len, incremental_len, model_filename, scaler_filename) ==
    [training_samples |-> combined_len,
     incremental_samples |-> incremental_len,
     model_path |-> model_filename,
     scaler_path |-> scaler_filename]

NoResult ==
    [success |-> FALSE, version |-> None, training_samples |-> 0, incremental_samples |-> 0]

Raised(s, at) == [s |-> s, ret |-> "raise", raised_at |-> at, result |-> NoResult]

\* _do_retrain with the sample appended before the load of line 177.
do_retrain_append_first(s, new_data, actual_label, fault) ==
    LET loaded == load_model_and_scaler(s, None)
        tf == s.training_data_file
        read_df == IncrementalRows(tf)
        incremental_df == ConcatRow(read_df, NewRow(new_data, actual_label))
        s_appended ==
            [s EXCEPT !.training_data_file = [exists |-> TRUE, lines |-> ToCsv(incremental_df)]]
        combined_len == CombinedLen(BaseCount, incremental_df)
        new_version_name == get_next_version_number(s.metadata)
        model_filename == ModelFilename(new_version_name)
        scaler_filename == ScalerFilename(new_version_name)
        files_m == Dump(s.files, Path(VersionsDir, model_filename),
                        Fitted("model", combined_len))
        files_ms == Dump(files_m, Path(VersionsDir, scaler_filename),
                         Fitted("scaler", combined_len))
        md == [current_version |-> new_version_name,
               versions |-> Put(s.metadata.versions, new_version_name,
                                NewVersionInfo(combined_len, Len(incremental_df),
                                               model_filename, scaler_filename))]
    IN  IF ~loaded.ok \/ fault = "load" THEN Raised(s_appended, "load")
        ELSE IF tf.exists /\ fault = "read_table" THEN Raised(s, "read_table")
        ELSE IF fault = "append" THEN Raised(s, "append")
        ELSE IF fault \in {"base_read", "fit", "evaluate", "dump_model"}
             THEN Raised(s_appended, fault)
        ELSE IF fault = "dump_scaler"
             THEN Raised([s_appended EXCEPT !.files = files_m], fault)
        ELSE IF fault = "persist"
             \* line 292 and 304 have changed self.metadata when _save_metadata raises
             THEN Raised([s_appended EXCEPT !.files = files_ms, !.metadata = md], fault)
        ELSE [s |-> [s_appended EXCEPT !.files = files_ms, !.metadata = md,
                                       !.metadata_file = save_metadata(md)],
              ret |-> "ok",
              raised_at |-> "none",
              result |-> [success |-> TRUE,
                          version |-> new_version_name,
                          training_samples |-> combined_len,
                          incremental_samples |-> Len(incremental_df)]]

do_retrain(s, new_data, actual_label, fault) ==
    LET loaded == load_model_and_scaler(s, None)
        tf == s.training_data_file
        read_df == IncrementalRows(tf)
        incremental_df == ConcatRow(read_df, NewRow(new_data, actual_label))
        s_appended ==
            [s EXCEPT !.training_data_file = [exists |-> TRUE, lines |-> ToCsv(incremental_df)]]
        combined_len == CombinedLen(BaseCount, incremental_df)
        new_version_name == get_next_version_number(s.metadata)
        model_filename == ModelFilename(new_version_name)
        scaler_filename == ScalerFilename(new_version_name)
        files_m == Dump(s.files, Path(VersionsDir, model_filename),
                        Fitted("model", combined_len))
        files_ms == Dump(files_m, Path(VersionsDir, scaler_filename),
                         Fitted("scaler", combined_len))
        md == [current_version |-> new_version_name,
               versions |-> Put(s.metadata.versions, new_version_name,
                                NewVersionInfo(combined_len, Len(incremental_df),
                                               model_filename, scaler_filename))]
    IN  IF ~loaded.ok \/ fault = "load" THEN Raised(s, "load")
        ELSE IF tf.exists /\ fault = "read_table" THEN Raised(s, "read_table")
        ELSE IF fault = "append" THEN Raised(s, "append")
        ELSE IF fault \in {"base_read", "fit", "evaluate", "dump_model"}
             THEN Raised(s_appended, fault)
        ELSE IF fault = "dump_scaler"
             THEN Raised([s_appended EXCEPT !.files = files_m], fault)
        ELSE IF fault = "persist"
             \* line 292 and 304 have changed self.metadata when _save_metadata raises
             THEN Raised([s_appended EXCEPT !.files = files_ms, !.metadata = md], fault)
        ELSE [s |-> [s_appended EXCEPT !.files = files_ms, !.metadata = md,
                                       !.metadata_file = save_metadata(md)],
              ret |-> "ok",
              raised_at |-> "none",
              result |-> [success |-> TRUE,
                          version |-> new_version_name,
                          training_samples |-> combined_len,
                          incremental_samples |-> Len(incremental_df)]]

\* retrain_incremental redirects stdout and stderr around _do_retrain.
retrain_incremental(s, new_data, actual_label, fault) ==
    do_retrain(s, new_data, actual_label, fault)

(* ------------------------------ the state ------------------------------ *)

VARIABLES
    metadata,            \* ModelVersionManager.metadata
    metadata_file,       \* models/versions/metadata.json
    training_data_file,  \* models/versions/incremental_training_data.csv
    files,               \* the artifact files: path -> the object dumped in it
    last,                \* the last completed call: its arguments, the state before it, what it returned
    prev_retrain,        \* what the successful retrain_incremental before the last call returned,
                         \* whether a delete_version has returned True since, and how many
                         \* retrain_incremental calls before the last call appended their sample
    ever_registered,     \* every name that has been a key of metadata["versions"]
    model,               \* main.py: the global model, NoObject for None
    scaler,              \* main.py: the global scaler, NoObject for None
    response,            \* the response to the last request the API handled
    threads              \* per thread of control: where it is in the call it makes, and its locals

vars == <<metadata, metadata_file, training_data_file, files,
          last, prev_retrain, ever_registered, model, scaler, response, threads>>

\* The state of main.py.
serving == <<model, scaler, response>>

EmptyDict == <<>>

\* The threads calling the manager.
Threads == {1, 2}

\* A thread that has made no call.
Idle ==
    [pc |-> "idle", op |-> "none", calls |-> 0, version_name |-> None,
     new_data |-> EmptyDict, actual_label |-> 0, incremental_df |-> <<>>,
     combined_len |-> 0, registry_read |-> {}, new_version_name |-> None,
     model_path |-> None, scaler_path |-> None, ret |-> "none", result |-> NoResult]

\* Whole calls only: no thread is inside a call.
NoThreads == threads = [t \in Threads |-> Idle]

\* No request handled yet.
NoResponse ==
    [status |-> 0, potability |-> 0, confidence |-> 0, probabilities |-> <<>>,
     input_scaled |-> FALSE, version |-> None, predictions |-> <<>>, count |-> 0]

\* main.py imported, no request handled: lines 41-42.
ServingIdle ==
    /\ model = NoObject
    /\ scaler = NoObject
    /\ response = NoResponse
    /\ NoThreads

\* The manager's state as the operations take it.
Cur ==
    [metadata |-> metadata, metadata_file |-> metadata_file,
     training_data_file |-> training_data_file, files |-> files]

\* The artifacts of "Original" exist before the manager is first constructed.
BaseFiles ==
    Dump(Dump(<<>>, Path(ModelsDir, OriginalInfo.model_path), Fitted("model", BaseCount)),
         Path(ModelsDir, OriginalInfo.scaler_path), Fitted("scaler", BaseCount))

\* The labelled samples a caller passes: the sample of the test scripts with
\* label 1, and a dictionary with keys missing with label 0.
Samples ==
    {[new_data |-> [ph |-> "7.0", Hardness |-> "200.0", Solids |-> "20000.0",
                    Chloramines |-> "7.5", Sulfate |-> "350.0", Conductivity |-> "400.0",
                    Organic_carbon |-> "14.0", Trihalomethanes |-> "70.0",
                    Turbidity |-> "4.0"],
      actual_label |-> 1],
     [new_data |-> [ph |-> "6.5"], actual_label |-> 0]}

\* Version names 1..n a caller may pass.
RECURSIVE VNames(_)
VNames(n) == IF n = 0 THEN {} ELSE VNames(n - 1) \cup {FormatV(n)}

NameInputs == {Original, NoSuchVersion} \cup VNames(MaxRows)

Call(op, name, new_data, label, pre, r) ==
    [op |-> op, name |-> name, new_data |-> new_data, label |-> label,
     pre |-> pre, ret |-> r.ret, raised_at |-> r.raised_at, result |-> r.result,
     pre_registered |-> ever_registered, pre_model |-> model, pre_scaler |-> scaler]

\* prev_retrain once the call in last is no longer the last one.
\* Whether a call is a retrain_incremental that got past the to_csv of line 207.
Appended(call) ==
    call.op = "retrain" /\ call.raised_at \notin {"load", "read_table", "append"}

NextPrev ==
    LET appended == prev_retrain.appended + IF Appended(last) THEN 1 ELSE 0
    IN  IF last.op = "retrain" /\ last.ret = "ok"
        THEN [result |-> last.result, deleted_since |-> FALSE, appended |-> appended]
        ELSE IF last.op = "delete" /\ last.ret = "True"
        THEN [prev_retrain EXCEPT !.deleted_since = TRUE, !.appended = appended]
        ELSE [prev_retrain EXCEPT !.appended = appended]

Apply(s) ==
    /\ metadata' = s.metadata
    /\ metadata_file' = s.metadata_file
    /\ training_data_file' = s.training_data_file
    /\ files' = s.files
    /\ ever_registered' = ever_registered \cup Keys(s.metadata.versions)

\* __init__ with no metadata.json on disk.
Init ==
    LET b == load_metadata(NoMetadataFile)
    IN  /\ ServingIdle
        /\ ever_registered = Keys(b.metadata.versions)
        /\ metadata = b.metadata
        /\ metadata_file = b.metadata_file
        /\ training_data_file = NoTableFile
        /\ files = BaseFiles
        /\ last = Call("init", None, EmptyDict, 0,
                       [metadata |-> b.metadata, metadata_file |-> NoMetadataFile,
                        training_data_file |-> NoTableFile, files |-> BaseFiles],
                       [ret |-> "none", raised_at |-> "none", result |-> NoResult])
        /\ prev_retrain = [result |-> NoResult, deleted_since |-> FALSE, appended |-> 0]

SwitchVersion ==
    \E version_name \in NameInputs :
        LET r == switch_version(Cur, version_name)
        IN  /\ Apply(r.s)
            /\ last' = Call("switch", version_name, EmptyDict, 0, Cur,
                            [ret |-> r.ret, raised_at |-> "none", result |-> NoResult])
            /\ prev_retrain' = NextPrev
            /\ UNCHANGED <<serving, threads>>

DeleteVersion ==
    \E version_name \in NameInputs :
        LET r == delete_version(Cur, version_name)
        IN  /\ Apply(r.s)
            /\ last' = Call("delete", version_name, EmptyDict, 0, Cur,
                            [ret |-> r.ret, raised_at |-> "none", result |-> NoResult])
            /\ prev_retrain' = NextPrev
            /\ UNCHANGED <<serving, threads>>

RetrainIncremental ==
    \E sample \in Samples, fault \in Faults :
        /\ TableRows(training_data_file) < MaxRows
        /\ LET r == retrain_incremental(Cur, sample.new_data, sample.actual_label, fault)
           IN  /\ Apply(r.s)
               /\ last' = Call("retrain", None, sample.new_data, sample.actual_label, Cur, r)
               /\ prev_retrain' = NextPrev
               /\ UNCHANGED <<serving, threads>>

Next == SwitchVersion \/ DeleteVersion \/ RetrainIncremental

Spec == Init /\ [][Next]_vars

\* The process starts again: the module-level ModelVersionManager() is
\* constructed anew, and finds metadata.json as it was left or finds none
\* (a deployment that kept the other files only).
Restart ==
    \E present \in BOOLEAN :
        LET mf == IF present THEN metadata_file ELSE NoMetadataFile
            b == load_metadata(mf)
        IN  /\ Apply([Cur EXCEPT !.metadata = b.metadata, !.metadata_file = b.metadata_file])
            /\ last' = Call("init", None, EmptyDict, 0, [Cur EXCEPT !.metadata_file = mf],
                            [ret |-> "none", raised_at |-> "none", result |-> NoResult])
            /\ prev_retrain' = NextPrev
            /\ UNCHANGED <<serving, threads>>

NextBoot == Next \/ Restart

\* The manager's calls, with restarts of the process in between.
SpecBoot == Init /\ [][NextBoot]_vars

(* ------------- a manager started on an existing registry --------------- *)
\* The manager constructed on any metadata.json and versions directory it may
\* find (_load_metadata takes the file as it is), and the operations that only
\* read: _get_next_version_number, list_versions, load_model_and_scaler.

\* Largest number of versions besides "Original" in a registry found on disk.
MaxKeys == 2

\* The names such a registry may hold besides "Original": V1..Vn, a two-digit
\* suffix, a suffix that is no integer, and a suffix with a further "V" in it.
NamePool ==
    VNames(MaxRows) \cup {<<"V", "1", "0">>, <<"V", "x">>, <<"V", "3", "V">>}

Range(f) == {f[i] : i \in DOMAIN f}

\* The sequences of at most k pairwise distinct elements of S.
RECURSIVE Arrangements(_, _)
Arrangements(S, k) ==
    IF k = 0 THEN {<<>>}
    ELSE LET shorter == Arrangements(S, k - 1)
         IN  shorter \cup UNION {{Append(a, n) : n \in S \ Range(a)} : a \in shorter}

\* The record of the i-th entry of a registry found on disk.
FoundInfo(name, i) ==
    IF name = Original THEN OriginalInfo
    ELSE NewVersionInfo(BaseCount + i, i, ModelFilename(name), ScalerFilename(name))

FoundVersions ==
    {[i \in DOMAIN a |-> [name |-> a[i], info |-> FoundInfo(a[i], i)]] :
        a \in {x \in Arrangements(NamePool \cup {Original}, MaxKeys + 1) :
                  Original \in Range(x)}}

\* Where the artifacts of a registered version are kept.
ArtifactPath(vs, name, kind) ==
    Path(IF name = Original THEN ModelsDir ELSE VersionsDir,
         IF kind = "model" THEN Info(vs, name).model_path ELSE Info(vs, name).scaler_path)

\* The artifact files of every version of vs, those in gone left out.
FoundFiles(vs, gone) ==
    LET arts == {[name |-> n, kind |-> k] : n \in Keys(vs), k \in {"model", "scaler"}}
        kept == {a \in arts : ArtifactPath(vs, a.name, a.kind) \notin gone}
    IN  [p \in {ArtifactPath(vs, a.name, a.kind) : a \in kept} |->
            LET a == CHOOSE x \in kept : ArtifactPath(vs, x.name, x.kind) = p
            IN  Fitted(a.kind, Info(vs, a.name).training_samples)]

InitFound ==
    \E vs \in FoundVersions :
      \E current \in Keys(vs) :
        \E gone \in {{}} \cup {{ArtifactPath(vs, n, k)} : n \in Keys(vs), k \in {"model", "scaler"}} :
          LET md == [current_version |-> current, versions |-> vs]
              b == load_metadata(save_metadata(md))
              s0 == [metadata |-> b.metadata, metadata_file |-> b.metadata_file,
                     training_data_file |-> NoTableFile, files |-> FoundFiles(vs, gone)]
          IN  /\ ServingIdle
              /\ ever_registered = Keys(vs)
              /\ metadata = s0.metadata
              /\ metadata_file = s0.metadata_file
              /\ training_data_file = s0.training_data_file
              /\ files = s0.files
              /\ last = Call("init", None, EmptyDict, 0, s0,
                             [ret |-> "none", raised_at |-> "none", result |-> NoResult])
              /\ prev_retrain = [result |-> NoResult, deleted_since |-> FALSE, appended |-> 0]

ReadOnly == UNCHANGED <<metadata, metadata_file, training_data_file, files,
                        prev_retrain, ever_registered, model, scaler, response, threads>>

\* _get_next_version_number(): last.name is the name it returns.
GetNextVersionNumber ==
    /\ last' = Call("next_version", get_next_version_number(metadata), EmptyDict, 0, Cur,
                    [ret |-> "ok", raised_at |-> "none", result |-> NoResult])
    /\ ReadOnly

\* list_versions()
ListVersions ==
    /\ last' = Call("list", None, EmptyDict, 0, Cur,
                    [ret |-> "ok", raised_at |-> "none", result |-> NoResult])
    /\ ReadOnly

\* load_model_and_scaler(version_name), version_name None included.
LoadModelAndScaler ==
    \E version_name \in Keys(metadata.versions) \cup {None, NoSuchVersion} :
        /\ last' = Call("load", version_name, EmptyDict, 0, Cur,
                        [ret |-> IF load_model_and_scaler(Cur, version_name).ok
                                 THEN "ok" ELSE "raise",
                         raised_at |-> "none", result |-> NoResult])
        /\ ReadOnly

NextFound == GetNextVersionNumber \/ ListVersions \/ LoadModelAndScaler

SpecFound == InitFound /\ [][NextFound]_vars

(* ------------------------------- main.py ------------------------------- *)

MODEL_PATH == Path(ModelsDir, <<"model.joblib">>)
SCALER_PATH == Path(ModelsDir, <<"scaler.joblib">>)

\* A classifier without predict_proba, as a VotingClassifier with hard voting.
HardVoting(rows) == Fitted("model_hard", rows)

\* hasattr(model, 'predict_proba')
HasPredictProba(obj) == obj.kind = "model"

\* The manager and the globals of main.py as a request finds them.
Serving == [s |-> Cur, model |-> model, scaler |-> scaler]

\* What joblib.load does beyond raising on a missing file: "versioned" is a run
\* in which the load of the current version raises on files that exist,
\* "scaler" one in which every load of a scaler file raises, "all" one in
\* which the load of MODEL_PATH raises as well.
LoadFaults == {"none", "versioned", "scaler", "all"}

\* load_model(): the current version from the manager, and when that raises the
\* files of MODEL_PATH and SCALER_PATH. The fallback assigns the model (line
\* 113) before it loads the scaler (line 118), and leaves the scaler as it was
\* when SCALER_PATH does not exist (line 120).
load_model(sv, fault) ==
    LET current_version == get_current_version(sv.s.metadata)
        r == load_model_and_scaler(sv.s, current_version)
    IN  IF r.ok /\ fault = "none"
        THEN [model |-> r.model, scaler |-> r.scaler, raised |-> FALSE]
        ELSE IF ~Exists(sv.s.files, MODEL_PATH) \/ fault = "all"
        THEN [model |-> sv.model, scaler |-> sv.scaler, raised |-> TRUE]
        ELSE IF Exists(sv.s.files, SCALER_PATH) /\ fault = "scaler"
        THEN [model |-> sv.s.files[MODEL_PATH], scaler |-> sv.scaler, raised |-> TRUE]
        ELSE [model |-> sv.s.files[MODEL_PATH],
              scaler |-> IF Exists(sv.s.files, SCALER_PATH)
                         THEN sv.s.files[SCALER_PATH] ELSE sv.scaler,
              raised |-> FALSE]

\* What predict_proba may return for one row, in hundredths: one probability
\* per class, class 0 first.
Probabilities == {<<p, 100 - p>> : p \in {0, 30, 50, 100}}

\* What the classifier does on one input: the class predict returns, the row
\* predict_proba returns, and whether the try block of predict raises.
\* A run that raises, or loads with a fault, is taken with one prediction only.
Outcomes ==
    {o \in [prediction : {0, 1}, probabilities : Probabilities, raises : BOOLEAN,
            load_fault : LoadFaults] :
        (o.raises \/ o.load_fault # "none")
            => (o.prediction = 0 /\ o.probabilities = <<30, 70>>
                /\ ~(o.raises /\ o.load_fault # "none"))}

\* predict with the probability of class 1 taken as the confidence.
predict_class1(sv, outcome) ==
    LET loaded == IF sv.model = NoObject THEN load_model(sv, outcome.load_fault)
                  ELSE [model |-> sv.model, scaler |-> sv.scaler, raised |-> FALSE]
    IN  IF loaded.raised
        THEN [model |-> loaded.model, scaler |-> loaded.scaler,
              response |-> [NoResponse EXCEPT !.status = 503]]
        ELSE IF outcome.raises
        THEN [model |-> loaded.model, scaler |-> loaded.scaler,
              response |-> [NoResponse EXCEPT !.status = 500]]
        ELSE LET prediction == outcome.prediction
                 proba == HasPredictProba(loaded.model)
                 confidence == IF proba THEN outcome.probabilities[2] ELSE 100
             IN  [model |-> loaded.model, scaler |-> loaded.scaler,
                  response |-> [status |-> 200,
                                potability |-> prediction,
                                confidence |-> confidence,
                                probabilities |-> IF proba THEN outcome.probabilities ELSE <<>>,
                                input_scaled |-> loaded.scaler # NoObject,
                                version |-> None, predictions |-> <<>>, count |-> 0]]

\* POST /predict. The response records, besides the fields of
\* PredictionResponse, whether the input went through scaler.transform and the
\* row predict_proba returned.
predict(sv, outcome) ==
    LET loaded == IF sv.model = NoObject THEN load_model(sv, outcome.load_fault)
                  ELSE [model |-> sv.model, scaler |-> sv.scaler, raised |-> FALSE]
    IN  IF loaded.raised
        THEN [model |-> loaded.model, scaler |-> loaded.scaler,
              response |-> [NoResponse EXCEPT !.status = 503]]
        ELSE IF outcome.raises
        THEN [model |-> loaded.model, scaler |-> loaded.scaler,
              response |-> [NoResponse EXCEPT !.status = 500]]
        ELSE LET prediction == outcome.prediction
                 proba == HasPredictProba(loaded.model)
                 confidence == IF proba THEN outcome.probabilities[prediction + 1] ELSE 100
             IN  [model |-> loaded.model, scaler |-> loaded.scaler,
                  response |-> [status |-> 200,
                                potability |-> prediction,
                                confidence |-> confidence,
                                probabilities |-> IF proba THEN outcome.probabilities ELSE <<>>,
                                input_scaled |-> loaded.scaler # NoObject,
                                version |-> None, predictions |-> <<>>, count |-> 0]]

\* The rows of one batch request are at most MaxBatch.
MaxBatch == 2

\* What the classifier does on one row of a batch: the class predict returns,
\* the row predict_proba returns, and whether the loop body raises on it.
RowOutcomes ==
    {o \in [prediction : {0, 1}, probabilities : {<<30, 70>>}, raises : BOOLEAN] :
        o.raises => o.prediction = 0}

\* A row the loop never reaches, after a row that raised, has no outcome.
NotEvaluated == [prediction |-> 0, probabilities |-> <<30, 70>>, raises |-> FALSE]

Raises(features_list) == \E i \in 1..Len(features_list) : features_list[i].raises

\* The requests of at most n rows.
RECURSIVE Batches(_)
Batches(n) ==
    IF n = 0 THEN {<<>>}
    ELSE LET shorter == {b \in Batches(n - 1) : Len(b) = n - 1}
         IN  Batches(n - 1)
             \cup UNION {{Append(b, o) : o \in RowOutcomes} : b \in {c \in shorter : ~Raises(c)}}
             \cup {Append(b, NotEvaluated) : b \in {c \in shorter : Raises(c)}}

\* The entry of predictions for one row: lines 287-291, and the model and
\* scaler globals the row was evaluated with (lines 271-275).
BatchEntry(loaded, o) ==
    [potability |-> o.prediction,
     confidence |-> IF HasPredictProba(loaded.model) THEN o.probabilities[o.prediction + 1]
                    ELSE 100,
     model |-> loaded.model, scaler |-> loaded.scaler]

\* The loop of lines 262-293: one entry appended per row, in the order of
\* features_list; a row that raises ends the loop.
RECURSIVE batch_rows(_, _, _)
batch_rows(loaded, features_list, predictions) ==
    IF features_list = <<>> THEN [predictions |-> predictions, raised |-> FALSE]
    ELSE IF Head(features_list).raises
    THEN [predictions |-> predictions, raised |-> TRUE]
    ELSE batch_rows(loaded, Tail(features_list),
                    Append(predictions, BatchEntry(loaded, Head(features_list))))

\* predict_batch reloading the model on every request, the test of line 250
\* left out.
predict_batch_reload(sv, features_list, load_fault) ==
    LET loaded == load_model(sv, load_fault)
        rows == batch_rows(loaded, features_list, <<>>)
    IN  IF loaded.raised
        THEN [model |-> loaded.model, scaler |-> loaded.scaler,
              response |-> [NoResponse EXCEPT !.status = 503]]
        ELSE IF rows.raised
        THEN [model |-> loaded.model, scaler |-> loaded.scaler,
              response |-> [NoResponse EXCEPT !.status = 500]]
        ELSE [model |-> loaded.model, scaler |-> loaded.scaler,
              response |-> [NoResponse EXCEPT !.status = 200,
                                              !.predictions = rows.predictions,
                                              !.count = Len(rows.predictions)]]

\* predict_batch answering 200 with the entries appended before the row that
\* raised, the except clause of line 300 left out.
predict_batch_partial(sv, features_list, load_fault) ==
    LET loaded == IF sv.model = NoObject THEN load_model(sv, load_fault)
                  ELSE [model |-> sv.model, scaler |-> sv.scaler, raised |-> FALSE]
        rows == batch_rows(loaded, features_list, <<>>)
    IN  IF loaded.raised
        THEN [model |-> loaded.model, scaler |-> loaded.scaler,
              response |-> [NoResponse EXCEPT !.status = 503]]
        ELSE [model |-> loaded.model, scaler |-> loaded.scaler,
              response |-> [NoResponse EXCEPT !.status = 200,
                                              !.predictions = rows.predictions,
                                              !.count = Len(rows.predictions)]]

\* POST /predict/batch
predict_batch(sv, features_list, load_fault) ==
    LET loaded == IF sv.model = NoObject THEN load_model(sv, load_fault)
                  ELSE [model |-> sv.model, scaler |-> sv.scaler, raised |-> FALSE]
        rows == batch_rows(loaded, features_list, <<>>)
    IN  IF loaded.raised
        THEN [model |-> loaded.model, scaler |-> loaded.scaler,
              response |-> [NoResponse EXCEPT !.status = 503]]
        ELSE IF rows.raised
        THEN [model |-> loaded.model, scaler |-> loaded.scaler,
              response |-> [NoResponse EXCEPT !.status = 500]]
        ELSE [model |-> loaded.model, scaler |-> loaded.scaler,
              response |-> [NoResponse EXCEPT !.status = 200,
                                              !.predictions = rows.predictions,
                                              !.count = Len(rows.predictions)]]

\* POST /retrain
retrain_model(sv, new_data, actual_potability, fault, load_fault) ==
    LET result == retrain_incremental(sv.s, new_data, actual_potability, fault)
        loaded == load_model([sv EXCEPT !.s = result.s], load_fault)
    IN  IF result.ret # "ok"
        THEN [s |-> result.s, model |-> sv.model, scaler |-> sv.scaler, result |-> result,
              response |-> [NoResponse EXCEPT !.status = 500]]
        ELSE IF loaded.raised
        THEN [s |-> result.s, model |-> loaded.model, scaler |-> loaded.scaler,
              result |-> result,
              response |-> [NoResponse EXCEPT !.status = 500]]
        ELSE [s |-> result.s, model |-> loaded.model, scaler |-> loaded.scaler,
              result |-> result,
              response |-> [NoResponse EXCEPT !.status = 200,
                                              !.version = result.result.version]]

\* POST /models/switch
switch_model_version(sv, version, load_fault) ==
    LET success == switch_version(sv.s, version)
        loaded == load_model([sv EXCEPT !.s = success.s], load_fault)
    IN  IF success.ret # "True"
        THEN [s |-> success.s, model |-> sv.model, scaler |-> sv.scaler, ret |-> success.ret,
              response |-> [NoResponse EXCEPT !.status = 404]]
        ELSE IF loaded.raised
        THEN [s |-> success.s, model |-> loaded.model, scaler |-> loaded.scaler,
              ret |-> success.ret,
              response |-> [NoResponse EXCEPT !.status = 500]]
        ELSE [s |-> success.s, model |-> loaded.model, scaler |-> loaded.scaler,
              ret |-> success.ret,
              response |-> [NoResponse EXCEPT !.status = 200,
                                              !.version = get_current_version(success.s.metadata)]]

\* The artifacts of "Original" as the API may find them when it starts: the
\* model with or without predict_proba or no model, with or without the scaler.
OriginalArtifacts ==
    {f \in [model : {Fitted("model", BaseCount), HardVoting(BaseCount), NoObject},
            scaler : {Fitted("scaler", BaseCount), NoObject}] : TRUE}

ArtifactFiles(a) ==
    LET with_model == IF a.model = NoObject THEN <<>> ELSE Dump(<<>>, MODEL_PATH, a.model)
    IN  IF a.scaler = NoObject THEN with_model ELSE Dump(with_model, SCALER_PATH, a.scaler)

\* The manager constructed with no metadata.json, then startup_event: load_model
\* with its exception printed and dropped.
InitServe ==
    \E a \in OriginalArtifacts, load_fault \in LoadFaults :
        LET b == load_metadata(NoMetadataFile)
            s0 == [metadata |-> b.metadata, metadata_file |-> b.metadata_file,
                   training_data_file |-> NoTableFile, files |-> ArtifactFiles(a)]
            loaded == load_model([s |-> s0, model |-> NoObject, scaler |-> NoObject], load_fault)
        IN  /\ model = loaded.model
            /\ scaler = loaded.scaler
            /\ response = NoResponse
            /\ NoThreads
            /\ ever_registered = Keys(b.metadata.versions)
            /\ metadata = s0.metadata
            /\ metadata_file = s0.metadata_file
            /\ training_data_file = s0.training_data_file
            /\ files = s0.files
            /\ last = Call("startup", None, EmptyDict, 0,
                           [s0 EXCEPT !.metadata_file = NoMetadataFile],
                           [ret |-> IF loaded.raised THEN "raise" ELSE "ok",
                            raised_at |-> "none", result |-> NoResult])
            /\ prev_retrain = [result |-> NoResult, deleted_since |-> FALSE, appended |-> 0]

\* A request; load_model is only called when no model is cached.
Predict ==
    \E outcome \in {o \in Outcomes : model # NoObject => o.load_fault = "none"} :
        LET r == predict(Serving, outcome)
        IN  /\ model' = r.model
            /\ scaler' = r.scaler
            /\ response' = r.response
            /\ last' = Call("predict", None, EmptyDict, 0, Cur,
                            [ret |-> "ok", raised_at |-> "none", result |-> NoResult])
            /\ prev_retrain' = NextPrev
            /\ UNCHANGED <<metadata, metadata_file, training_data_file, files,
                           ever_registered, threads>>

\* RetrainRequest: water_quality carries every feature.
Requests == {sample \in Samples : DOMAIN sample.new_data = Range(FeatureColumns)}

RetrainModel ==
    \E sample \in Requests, fault \in Faults,
       load_fault \in LoadFaults :
        /\ fault # "none" => load_fault = "none"
        /\ TableRows(training_data_file) < MaxRows
        /\ LET r == retrain_model(Serving, sample.new_data, sample.actual_label, fault, load_fault)
           IN  /\ Apply(r.s)
               /\ model' = r.model
               /\ scaler' = r.scaler
               /\ response' = r.response
               /\ last' = Call("retrain_model", None, sample.new_data, sample.actual_label,
                               Cur, r.result)
               /\ prev_retrain' = NextPrev
               /\ UNCHANGED threads

SwitchModelVersion ==
    \E version \in NameInputs :
    \E load_fault \in (IF Has(metadata.versions, version) THEN LoadFaults ELSE {"none"}) :
        LET r == switch_model_version(Serving, version, load_fault)
        IN  /\ Apply(r.s)
            /\ model' = r.model
            /\ scaler' = r.scaler
            /\ response' = r.response
            /\ last' = Call("switch_model_version", version, EmptyDict, 0, Cur,
                            [ret |-> r.ret, raised_at |-> "none", result |-> NoResult])
            /\ prev_retrain' = NextPrev
            /\ UNCHANGED threads

NextServe == Predict \/ RetrainModel \/ SwitchModelVersion

\* The API: startup, then requests handled one at a time.
SpecServe == InitServe /\ [][NextServe]_vars

\* A batch request; load_model is only called when no model is cached.
PredictBatch ==
    \E features_list \in Batches(MaxBatch),
       load_fault \in (IF model = NoObject THEN LoadFaults ELSE {"none"}) :
        LET r == predict_batch(Serving, features_list, load_fault)
        IN  /\ model' = r.model
            /\ scaler' = r.scaler
            /\ response' = r.response
            /\ last' = Call("predict_batch", None, features_list, 0, Cur,
                            [ret |-> "ok", raised_at |-> "none", result |-> NoResult])
            /\ prev_retrain' = NextPrev
            /\ UNCHANGED <<metadata, metadata_file, training_data_file, files,
                           ever_registered, threads>>

\* The API with its batch endpoint.
NextBatch == NextServe \/ PredictBatch

SpecBatch == InitServe /\ [][NextBatch]_vars

\* The API, and a caller in the same process that calls
\* model_manager.switch_version itself, with no load_model after it.
NextDirect == NextServe \/ SwitchVersion

SpecDirect == InitServe /\ [][NextDirect]_vars

(* ------------------- the manager's calls, step by step ----------------- *)
\* Each call is taken one statement at a time: a step is an operator over the
\* manager's state s and the locals th of the thread making the call, giving
\* both after the statement at th.pc.

\* Largest number of calls the threads make between them.
MaxCalls == 3

Returned(th, ret, result) == [th EXCEPT !.pc = "done", !.ret = ret, !.result = result]

\* new_version_name taken from the number of rows of the table.
mint_by_rows(s, th) == FormatV(Len(th.incremental_df))

\* new_version_name = self._get_next_version_number()
mint(s, th) == get_next_version_number(s.metadata)

\* _do_retrain, no statement raising but the load of a version whose files are missing.
retrain_step(s, th) ==
    IF th.pc = "r_load"
    THEN IF load_model_and_scaler(s, None).ok
         THEN [s |-> s, th |-> [th EXCEPT !.pc = "r_read_table"]]
         ELSE [s |-> s, th |-> Returned(th, "raise", NoResult)]
    ELSE IF th.pc = "r_read_table"
    THEN [s |-> s,
          th |-> [th EXCEPT !.pc = "r_append",
                            !.incremental_df = IncrementalRows(s.training_data_file)]]
    ELSE IF th.pc = "r_append"
    THEN LET incremental_df ==
                 ConcatRow(th.incremental_df, NewRow(th.new_data, th.actual_label))
         IN  [s |-> [s EXCEPT !.training_data_file =
                                  [exists |-> TRUE, lines |-> ToCsv(incremental_df)]],
              th |-> [th EXCEPT !.pc = "r_mint",
                                !.incremental_df = incremental_df,
                                !.combined_len = CombinedLen(BaseCount, incremental_df)]]
    ELSE IF th.pc = "r_mint"
    THEN [s |-> s,
          th |-> [th EXCEPT !.pc = "r_dump_model",
                            !.registry_read = Keys(s.metadata.versions),
                            !.new_version_name = mint(s, th)]]
    ELSE IF th.pc = "r_dump_model"
    THEN [s |-> [s EXCEPT !.files = Dump(@, Path(VersionsDir, ModelFilename(th.new_version_name)),
                                         Fitted("model", th.combined_len))],
          th |-> [th EXCEPT !.pc = "r_dump_scaler"]]
    ELSE IF th.pc = "r_dump_scaler"
    THEN [s |-> [s EXCEPT !.files = Dump(@, Path(VersionsDir, ScalerFilename(th.new_version_name)),
                                         Fitted("scaler", th.combined_len))],
          th |-> [th EXCEPT !.pc = "r_register"]]
    ELSE IF th.pc = "r_register"
    THEN [s |-> [s EXCEPT !.metadata.versions =
                     Put(@, th.new_version_name,
                         NewVersionInfo(th.combined_len, Len(th.incremental_df),
                                        ModelFilename(th.new_version_name),
                                        ScalerFilename(th.new_version_name)))],
          th |-> [th EXCEPT !.pc = "r_current"]]
    ELSE IF th.pc = "r_current"
    THEN [s |-> [s EXCEPT !.metadata.current_version = th.new_version_name],
          th |-> [th EXCEPT !.pc = "r_save"]]
    ELSE [s |-> [s EXCEPT !.metadata_file = save_metadata(s.metadata)],
          th |-> Returned(th, "ok", [success |-> TRUE,
                                     version |-> th.new_version_name,
                                     training_samples |-> th.combined_len,
                                     incremental_samples |-> Len(th.incremental_df)])]

\* delete_version with the entry removed before the files.
delete_step_entry_first(s, th) ==
    IF th.pc = "d_check"
    THEN IF \/ th.version_name = Original
            \/ th.version_name = s.metadata.current_version
            \/ ~Has(s.metadata.versions, th.version_name)
         THEN [s |-> s, th |-> Returned(th, "False", NoResult)]
         ELSE LET version_info == Info(s.metadata.versions, th.version_name)
              IN  [s |-> s,
                   th |-> [th EXCEPT !.pc = "d_del",
                                     !.model_path = Path(VersionsDir, version_info.model_path),
                                     !.scaler_path = Path(VersionsDir, version_info.scaler_path)]]
    ELSE IF th.pc = "d_del"
    THEN IF ~Has(s.metadata.versions, th.version_name)
         THEN [s |-> s, th |-> Returned(th, "raise", NoResult)]
         ELSE [s |-> [s EXCEPT !.metadata.versions = Del(@, th.version_name)],
               th |-> [th EXCEPT !.pc = "d_unlink_model"]]
    ELSE IF th.pc = "d_unlink_model"
    THEN [s |-> [s EXCEPT !.files = Unlink(@, th.model_path)],
          th |-> [th EXCEPT !.pc = "d_unlink_scaler"]]
    ELSE IF th.pc = "d_unlink_scaler"
    THEN [s |-> [s EXCEPT !.files = Unlink(@, th.scaler_path)],
          th |-> [th EXCEPT !.pc = "d_save"]]
    ELSE [s |-> [s EXCEPT !.metadata_file = save_metadata(s.metadata)],
          th |-> Returned(th, "True", NoResult)]

\* delete_version: the three tests, the two unlinks, del, _save_metadata.
\* del raises KeyError when the entry has gone since the tests.
delete_step(s, th) ==
    IF th.pc = "d_check"
    THEN IF \/ th.version_name = Original
            \/ th.version_name = s.metadata.current_version
            \/ ~Has(s.metadata.versions, th.version_name)
         THEN [s |-> s, th |-> Returned(th, "False", NoResult)]
         ELSE LET version_info == Info(s.metadata.versions, th.version_name)
              IN  [s |-> s,
                   th |-> [th EXCEPT !.pc = "d_unlink_model",
                                     !.model_path = Path(VersionsDir, version_info.model_path),
                                     !.scaler_path = Path(VersionsDir, version_info.scaler_path)]]
    ELSE IF th.pc = "d_unlink_model"
    THEN [s |-> [s EXCEPT !.files = Unlink(@, th.model_path)],
          th |-> [th EXCEPT !.pc = "d_unlink_scaler"]]
    ELSE IF th.pc = "d_unlink_scaler"
    THEN [s |-> [s EXCEPT !.files = Unlink(@, th.scaler_path)],
          th |-> [th EXCEPT !.pc = "d_del"]]
    ELSE IF th.pc = "d_del"
    THEN IF ~Has(s.metadata.versions, th.version_name)
         THEN [s |-> s, th |-> Returned(th, "raise", NoResult)]
         ELSE [s |-> [s EXCEPT !.metadata.versions = Del(@, th.version_name)],
               th |-> [th EXCEPT !.pc = "d_save"]]
    ELSE [s |-> [s EXCEPT !.metadata_file = save_metadata(s.metadata)],
          th |-> Returned(th, "True", NoResult)]

\* switch_version: the test, the assignment, _save_metadata.
switch_step(s, th) ==
    IF th.pc = "s_check"
    THEN IF ~Has(s.metadata.versions, th.version_name)
         THEN [s |-> s, th |-> Returned(th, "False", NoResult)]
         ELSE [s |-> s, th |-> [th EXCEPT !.pc = "s_set"]]
    ELSE IF th.pc = "s_set"
    THEN [s |-> [s EXCEPT !.metadata.current_version = th.version_name],
          th |-> [th EXCEPT !.pc = "s_save"]]
    ELSE [s |-> [s EXCEPT !.metadata_file = save_metadata(s.metadata)],
          th |-> Returned(th, "True", NoResult)]

TotalCalls == threads[1].calls + threads[2].calls

\* Thread t may make a call: it is in none, and the bound is not reached.
MayCall(t) == threads[t].pc \in {"idle", "done"} /\ TotalCalls < MaxCalls

\* The locals of a thread entering a call.
Entering(t, op, pc, version_name, new_data, actual_label) ==
    [Idle EXCEPT !.pc = pc, !.op = op, !.calls = threads[t].calls + 1,
                 !.version_name = version_name, !.new_data = new_data,
                 !.actual_label = actual_label]

\* What a step leaves alone.
Whole == UNCHANGED <<last, prev_retrain, model, scaler, response>>

BeginRetrain(t) ==
    \E sample \in Samples :
        /\ MayCall(t)
        /\ threads' = [threads EXCEPT ![t] =
               Entering(t, "retrain", "r_load", None, sample.new_data, sample.actual_label)]
        /\ Apply(Cur)
        /\ Whole

BeginDelete(t) ==
    \E version_name \in NameInputs :
        /\ MayCall(t)
        /\ threads' = [threads EXCEPT ![t] =
               Entering(t, "delete", "d_check", version_name, EmptyDict, 0)]
        /\ Apply(Cur)
        /\ Whole

BeginSwitch(t) ==
    \E version_name \in NameInputs :
        /\ MayCall(t)
        /\ threads' = [threads EXCEPT ![t] =
               Entering(t, "switch", "s_check", version_name, EmptyDict, 0)]
        /\ Apply(Cur)
        /\ Whole

Running(t, op) == threads[t].op = op /\ threads[t].pc \notin {"idle", "done"}

RetrainStep(t) ==
    /\ Running(t, "retrain")
    /\ LET r == retrain_step(Cur, threads[t])
       IN  Apply(r.s) /\ threads' = [threads EXCEPT ![t] = r.th]
    /\ Whole

DeleteStep(t) ==
    /\ Running(t, "delete")
    /\ LET r == delete_step(Cur, threads[t])
       IN  Apply(r.s) /\ threads' = [threads EXCEPT ![t] = r.th]
    /\ Whole

SwitchStep(t) ==
    /\ Running(t, "switch")
    /\ LET r == switch_step(Cur, threads[t])
       IN  Apply(r.s) /\ threads' = [threads EXCEPT ![t] = r.th]
    /\ Whole

StepOf(t) ==
    \/ BeginRetrain(t) \/ BeginDelete(t) \/ BeginSwitch(t)
    \/ RetrainStep(t) \/ DeleteStep(t) \/ SwitchStep(t)

\* One thread: the calls follow one another, every statement a state.
NextSteps == StepOf(1)

SpecSteps == Init /\ [][NextSteps]_vars

\* Two threads on one manager, no lock: their statements interleave.
NextThreads == \E t \in Threads : StepOf(t)

SpecThreads == Init /\ [][NextThreads]_vars

(* ------------------------------- claims -------------------------------- *)

\* C1: in every state reached from bootstrap by completed switch_version,
\* delete_version and retrain_incremental calls, whether they succeed or fail,
\* metadata["current_version"] is a key of metadata["versions"].
C1_CurrentVersionIsRegistered ==
    Has(metadata.versions, metadata.current_version)

\* A version other than the current one has just been deleted while a retrained
\* version is current.
C1_Witness ==
    /\ last.op = "delete" /\ last.ret = "True"
    /\ metadata.current_version # Original

\* C2: for every name present in the registry, switch_version(name) returns
\* True and get_current_version() right after it returns that name.
C2_SwitchToRegisteredName ==
    (last.op = "switch" /\ Has(last.pre.metadata.versions, last.name))
        => (last.ret = "True" /\ get_current_version(metadata) = last.name)

\* A switch to a registered retrained version that was not the current one.
C2_Witness ==
    /\ last.op = "switch"
    /\ Has(last.pre.metadata.versions, last.name)
    /\ last.name # Original
    /\ last.name # last.pre.metadata.current_version

\* C3: for every name that is not a key of the registry, switch_version(name)
\* returns False and leaves current_version, the versions mapping and the
\* persisted metadata file unchanged.
C3_SwitchToUnknownName ==
    (last.op = "switch" /\ ~Has(last.pre.metadata.versions, last.name))
        => /\ last.ret = "False"
           /\ metadata.current_version = last.pre.metadata.current_version
           /\ metadata.versions = last.pre.metadata.versions
           /\ metadata_file = last.pre.metadata_file

\* A switch to the name of a deleted version, while a retrained version is current.
C3_Witness ==
    /\ last.op = "switch"
    /\ ~Has(last.pre.metadata.versions, last.name)
    /\ last.name \in ever_registered
    /\ metadata.current_version # Original

\* C4: delete_version(x) returns False when x is "Original", when x is the
\* current version or when x is not registered; for every other x it returns
\* True and x is no longer among the names list_versions() returns.
C4_DeleteVersionResult ==
    last.op = "delete" =>
        IF \/ last.name = Original
           \/ last.name = last.pre.metadata.current_version
           \/ ~Has(last.pre.metadata.versions, last.name)
        THEN last.ret = "False"
        ELSE last.ret = "True" /\ last.name \notin ListedNames(metadata)

\* A registered version that is neither current nor "Original" has been deleted.
C4_Witness ==
    /\ last.op = "delete"
    /\ last.name # Original
    /\ last.name # last.pre.metadata.current_version
    /\ Has(last.pre.metadata.versions, last.name)

\* C5: in every reachable state the registry holds exactly one record named
\* "Original", the one it was seeded with: the registry is never empty, and no
\* sequence of switch, delete and retrain operations removes or replaces it.
C5_OriginalAlwaysRegistered ==
    /\ Cardinality({i \in DOMAIN metadata.versions : metadata.versions[i].name = Original}) = 1
    /\ Info(metadata.versions, Original) = OriginalInfo
    /\ Len(list_versions(metadata)) >= 1

\* delete_version("Original") has been called while another version was current.
C5_Witness ==
    /\ last.op = "delete"
    /\ last.name = Original
    /\ last.pre.metadata.current_version # Original

\* The call in last is a retrain_incremental that returned its result.
RetrainSucceeded == last.op = "retrain" /\ last.ret = "ok"

\* The integer k of a name "V<k>".
NumericSuffix(name) == IntOf(Tail(name))

\* name is "V" followed by the decimal digits of a positive integer.
IsVName(name) ==
    /\ StartsWithV(name)
    /\ IsIntLiteral(Tail(name))
    /\ NumericSuffix(name) >= 1
    /\ name = FormatV(NumericSuffix(name))

\* C6: after a successful retrain_incremental the returned name V<k> is a key of
\* the registry and is listed by list_versions(), get_current_version() is V<k>,
\* and the new record's training_samples is the base dataset's row count plus
\* the row count of the incremental table, the sample just appended included.
C6_SuccessfulRetrainRegisters ==
    RetrainSucceeded =>
        LET v == last.result.version
            rows == IncrementalRows(training_data_file)
        IN  /\ IsVName(v)
            /\ Has(metadata.versions, v)
            /\ v \in ListedNames(metadata)
            /\ get_current_version(metadata) = v
            /\ Len(rows) = TableRows(last.pre.training_data_file) + 1
            /\ rows[Len(rows)] = NewRow(last.new_data, last.label)
            /\ Info(metadata.versions, v).training_samples = BaseCount + Len(rows)
            /\ last.result.training_samples = BaseCount + Len(rows)

\* A retrain has succeeded on a table that already held a row.
C6_Witness ==
    /\ RetrainSucceeded
    /\ TableRows(last.pre.training_data_file) >= 1

\* C7: of two successful retrain_incremental calls made one after the other,
\* with no version deleted in between, the second returns a different name with
\* a strictly larger numeric suffix and a strictly larger training_samples.
C7_SuccessiveRetrainsIncrease ==
    (RetrainSucceeded /\ prev_retrain.result.success /\ ~prev_retrain.deleted_since)
        => /\ last.result.version # prev_retrain.result.version
           /\ NumericSuffix(last.result.version) > NumericSuffix(prev_retrain.result.version)
           /\ last.result.training_samples > prev_retrain.result.training_samples

\* Two retrains have succeeded, with a switch away from the first one's version
\* before the second.
C7_Witness ==
    /\ RetrainSucceeded
    /\ prev_retrain.result.success
    /\ ~prev_retrain.deleted_since
    /\ last.pre.metadata.current_version # prev_retrain.result.version

\* C8 as stated: a successful retrain_incremental never returns a name that was
\* registered at any earlier time, names of deleted versions included.
C8_NeverMintsUsedName ==
    RetrainSucceeded => last.result.version \notin last.pre_registered

\* C8 as the code has it: a successful retrain_incremental returns a name that
\* is not registered when it is called, its suffix being larger than that of
\* every registered V-name; the name of a deleted version can be returned again.
C8_MintsUnregisteredName ==
    RetrainSucceeded =>
        /\ ~Has(last.pre.metadata.versions, last.result.version)
        /\ \A n \in Keys(last.pre.metadata.versions) :
              IsVName(n) => NumericSuffix(n) < NumericSuffix(last.result.version)

\* A retrain has succeeded and returned the name of a version deleted before.
C8_Witness ==
    /\ RetrainSucceeded
    /\ last.result.version \in last.pre_registered
    /\ ~Has(last.pre.metadata.versions, last.result.version)

\* C9: when a step of retrain_incremental raises, current_version is what it
\* was before the call and no record of the version being created is in the
\* versions mapping, in memory and in the persisted metadata.
C9_FailedRetrainLeavesRegistry ==
    (last.op = "retrain" /\ last.ret = "raise")
        => /\ metadata.current_version = last.pre.metadata.current_version
           /\ metadata.versions = last.pre.metadata.versions
           /\ metadata_file = last.pre.metadata_file

\* C10: the incremental table is append-only: no call removes or changes a row
\* it held, and the sample of a retrain that got past the append is its last
\* row, also when a later step of that retrain raised.
C10_TableAppendOnly ==
    LET before == IncrementalRows(last.pre.training_data_file)
        after == IncrementalRows(training_data_file)
    IN  /\ Len(after) >= Len(before)
        /\ SubSeq(after, 1, Len(before)) = before
        /\ (last.op = "retrain" /\ last.raised_at \notin {"load", "read_table", "append"})
              => /\ Len(after) = Len(before) + 1
                 /\ after[Len(after)] = NewRow(last.new_data, last.label)
        /\ last.op # "retrain" => after = before

\* A retrain has raised in the fit step after appending a sample that differs
\* from the row the table held.
C10_Witness ==
    /\ last.op = "retrain" /\ last.raised_at = "fit"
    /\ Len(IncrementalRows(last.pre.training_data_file)) = 1
    /\ IncrementalRows(training_data_file)[1] # IncrementalRows(training_data_file)[2]

\* C11 as stated: after every completed registry operation the persisted
\* metadata file equals the in-memory registry, so that a manager re-created
\* from disk has the same current_version and the same versions mapping.
C11_PersistedEqualsMemory ==
    /\ metadata_file.exists
    /\ load_metadata(metadata_file).metadata = metadata

\* C15 as stated: a successful retrain made when the current version's record
\* has training_samples = n produces a version whose training_samples is n + 1.
C15_TrainingSamplesIsCurrentPlusOne ==
    RetrainSucceeded =>
        last.result.training_samples =
            Info(last.pre.metadata.versions, last.pre.metadata.current_version).training_samples + 1

\* C15 as the code has it: the new training_samples is the base dataset's row
\* count plus the rows the table held before the call plus one; that is never
\* less than n + 1, and is n + 1 exactly when the current version's record
\* counts every row the table held before the call.
C15_TrainingSamplesCountsTable ==
    RetrainSucceeded =>
        LET n == Info(last.pre.metadata.versions,
                      last.pre.metadata.current_version).training_samples
            held == TableRows(last.pre.training_data_file)
            new == Info(metadata.versions, last.result.version).training_samples
        IN  /\ new = BaseCount + held + 1
            /\ new >= n + 1
            /\ (n = BaseCount + held) <=> (new = n + 1)

\* A retrain has succeeded with "Original" (2293 samples) current while the
\* table already held a row: the new version has 2295 samples.
C15_Witness ==
    /\ RetrainSucceeded
    /\ last.pre.metadata.current_version = Original
    /\ TableRows(last.pre.training_data_file) = 1
    /\ last.result.training_samples = 2295

\* C12: constructing the manager when no metadata file exists gives a registry
\* of exactly one record, "Original", which is current (is_current in
\* list_versions) and has training_samples 2293, and writes that state to the
\* metadata file.
C12_BootstrapSeedsOriginal ==
    (last.op = "init" /\ ~last.pre.metadata_file.exists)
        => /\ Keys(metadata.versions) = {Original}
           /\ Len(metadata.versions) = 1
           /\ get_current_version(metadata) = Original
           /\ list_versions(metadata) =
                 <<[version |-> Original, training_samples |-> 2293, is_current |-> TRUE]>>
           /\ metadata_file.exists
           /\ metadata_file.content = metadata

\* The manager has been constructed with no metadata file while the artifacts
\* and the table of an earlier retrain are still there.
C12_Witness ==
    /\ last.op = "init"
    /\ ~last.pre.metadata_file.exists
    /\ TableRows(training_data_file) >= 1
    /\ Has(last.pre.metadata.versions, FormatV(1))


\* name is "V" followed by an integer literal.
HasIntegerSuffix(name) == StartsWithV(name) /\ IsIntLiteral(Tail(name))

\* C19: _get_next_version_number returns "V1" when no registered name is "V"
\* followed by an integer, and otherwise "V<m+1>" for the largest such integer
\* m; "Original" and the names whose suffix is not an integer do not count.
C19_NextVersionNumber ==
    last.op = "next_version" =>
        LET suffixes == {IntOf(Tail(n)) :
                            n \in {k \in Keys(last.pre.metadata.versions) :
                                      HasIntegerSuffix(k)}}
        IN  last.name = IF suffixes = {} THEN FormatV(1)
                        ELSE FormatV(SetMax(suffixes) + 1)


\* C13: list_versions() returns one entry per registry record, "Original"
\* first, the V<n> entries after it in ascending order of n, and exactly one
\* entry has is_current true: the one named by current_version.
C13_ListVersionsOrdered ==
    last.op = "list" =>
        LET md == last.pre.metadata
            l == list_versions(md)
        IN  /\ Len(l) = Len(md.versions)
            /\ {l[i].version : i \in DOMAIN l} = Keys(md.versions)
            /\ \A i, j \in DOMAIN l : l[i].version = l[j].version => i = j
            /\ \A i \in DOMAIN l :
                   l[i].training_samples = Info(md.versions, l[i].version).training_samples
            /\ l[1].version = Original
            /\ \A i, j \in DOMAIN l :
                   (i < j /\ IsVName(l[i].version) /\ IsVName(l[j].version))
                       => NumericSuffix(l[i].version) < NumericSuffix(l[j].version)
            /\ Cardinality({i \in DOMAIN l : l[i].is_current}) = 1
            /\ \A i \in DOMAIN l : l[i].is_current <=> l[i].version = md.current_version

\* list_versions() on a registry stored as V10, V2, Original with V2 current.
C13_Witness ==
    /\ last.op = "list"
    /\ Len(metadata.versions) = 3
    /\ metadata.versions[1].name = <<"V", "1", "0">>
    /\ metadata.versions[2].name = FormatV(2)
    /\ metadata.versions[3].name = Original
    /\ metadata.current_version = FormatV(2)
    /\ list_versions(metadata)[2].version = FormatV(2)
    /\ list_versions(metadata)[2].is_current
    /\ list_versions(metadata)[3].version = <<"V", "1", "0">>


\* C14: load_model_and_scaler(name) raises, and returns no pair, when name is
\* not a registry key or when the model file or the scaler file of that version
\* is missing; without a name it loads the artifacts of current_version;
\* "Original" is looked up in the models directory and every other version in
\* the versions directory.
C14_LoadModelAndScaler ==
    last.op = "load" =>
        LET s == last.pre
            target == IF last.name = None THEN s.metadata.current_version ELSE last.name
            r == load_model_and_scaler(s, last.name)
            raised == last.ret = "raise" /\ ~r.ok /\ r.model = NoObject /\ r.scaler = NoObject
        IN  IF target \notin Keys(s.metadata.versions) THEN raised
            ELSE LET info == Info(s.metadata.versions, target)
                     dir == IF target = Original THEN "models" ELSE "models/versions"
                     model_file == [dir |-> dir, file |-> info.model_path]
                     scaler_file == [dir |-> dir, file |-> info.scaler_path]
                 IN  IF model_file \notin DOMAIN s.files \/ scaler_file \notin DOMAIN s.files
                     THEN raised
                     ELSE /\ last.ret = "ok" /\ r.ok
                          /\ r.model = s.files[model_file]
                          /\ r.scaler = s.files[scaler_file]
                          /\ r.model = Fitted("model", info.training_samples)
                          /\ r.scaler = Fitted("scaler", info.training_samples)

\* load_model_and_scaler() without a name, V2 current: the pair of V2 is loaded
\* from the versions directory.
C14_Witness ==
    /\ last.op = "load"
    /\ last.name = None
    /\ last.pre.metadata.current_version = FormatV(2)
    /\ last.ret = "ok"
    /\ load_model_and_scaler(last.pre, None).model
           = files[[dir |-> "models/versions", file |-> ModelFilename(FormatV(2))]]


\* C16: every successful predict response carries potability 0 or 1 and a
\* confidence between 0 and 1 (hundredths: 0..100): the probability the model
\* gives to the predicted class, or exactly 1.0 when the cached model has no
\* predict_proba; the input went through the scaler exactly when a scaler is
\* cached.
C16_PredictResponse ==
    (last.op = "predict" /\ response.status = 200) =>
        /\ model # NoObject
        /\ response.potability \in {0, 1}
        /\ response.confidence \in 0..100
        /\ HasPredictProba(model) =>
               response.confidence = response.probabilities[response.potability + 1]
        /\ ~HasPredictProba(model) => response.confidence = 100
        /\ response.input_scaled <=> scaler # NoObject

\* A prediction of class 0 with probability 0.3 by a retrained model, scaler cached.
C16_Witness ==
    /\ last.op = "predict"
    /\ response.status = 200
    /\ model = Fitted("model", BaseCount + 1)
    /\ scaler # NoObject
    /\ response.potability = 0
    /\ response.probabilities = <<30, 70>>
    /\ response.confidence = 30
    /\ response.input_scaled


\* C18: whenever POST /retrain or POST /models/switch answers with a status
\* that is not 2xx, current_version and the versions mapping of the registry are
\* what they were before the request.
C18_FailureLeavesRegistry ==
    (last.op \in {"retrain_model", "switch_model_version"} /\ response.status \notin 200..299)
        => /\ metadata.current_version = last.pre.metadata.current_version
           /\ metadata.versions = last.pre.metadata.versions


\* Threads t and u have both returned from a successful retrain for which they
\* read the same registry when minting the name.
RacedRetrains(t, u) ==
    /\ t # u
    /\ \A v \in {t, u} :
           /\ threads[v].op = "retrain"
           /\ threads[v].pc = "done"
           /\ threads[v].ret = "ok"
    /\ threads[t].registry_read = threads[u].registry_read

\* C17: with no mutual exclusion two retrain executions can both read the
\* registry before either registers its result; they then mint the same name,
\* the two retrains leave one new record only, and one artifact pair has
\* overwritten the other: one model file and one scaler file for the two.
C17_RacingRetrainsClash ==
    \A t, u \in Threads :
        RacedRetrains(t, u) =>
            LET name == threads[t].new_version_name
                read == threads[t].registry_read
                model_file == Path(VersionsDir, ModelFilename(name))
                scaler_file == Path(VersionsDir, ScalerFilename(name))
            IN  /\ threads[u].new_version_name = name
                /\ name \notin read
                /\ Keys(metadata.versions) = read \cup {name}
                /\ Len(metadata.versions) = Cardinality(read) + 1
                /\ metadata.current_version = name
                /\ threads[t].result.version = name /\ threads[u].result.version = name
                /\ files[model_file] \in {Fitted("model", threads[v].combined_len) : v \in {t, u}}
                /\ files[scaler_file] \in {Fitted("scaler", threads[v].combined_len) : v \in {t, u}}
                /\ {p \in DOMAIN files : p.dir = VersionsDir}
                       \ {Path(VersionsDir, f) :
                             f \in {ModelFilename(n) : n \in read} \cup {ScalerFilename(n) : n \in read}}
                     = {model_file, scaler_file}

\* Two retrains on the fresh manager, both told "V1": the table holds both
\* samples, the registry one new record, and model_V1.joblib is the model of
\* thread 2 while the model of thread 1, fitted on one sample, is in no file.
C17_Witness ==
    /\ RacedRetrains(1, 2)
    /\ threads[1].registry_read = {Original}
    /\ threads[1].result.version = FormatV(1)
    /\ threads[2].result.version = FormatV(1)
    /\ threads[1].result.training_samples = BaseCount + 1
    /\ threads[2].result.training_samples = BaseCount + 2
    /\ TableRows(training_data_file) = 2
    /\ Keys(metadata.versions) = {Original, FormatV(1)}
    /\ files[Path(VersionsDir, ModelFilename(FormatV(1)))] = Fitted("model", BaseCount + 2)
    /\ \A p \in DOMAIN files : files[p] # Fitted("model", BaseCount + 1)


\* C20: a successful delete_version(x) removes the two artifact files of x, then
\* the entry of x in memory, then persists: at no statement of the delete do
\* files of x exist with x gone from the registry, and after it neither the
\* files of x nor its entry exist, in memory or in metadata.json.
C20_DeleteStepOrder ==
    \A t \in Threads :
        LET th == threads[t]
            x == th.version_name
            model_exists == Path(VersionsDir, ModelFilename(x)) \in DOMAIN files
            scaler_exists == Path(VersionsDir, ScalerFilename(x)) \in DOMAIN files
            in_memory == x \in Keys(metadata.versions)
            on_disk == x \in Keys(metadata_file.content.versions)
        IN  (th.op = "delete" /\ (th.pc \notin {"d_check", "done"} \/ th.ret = "True")) =>
                /\ th.pc = "d_unlink_model" => in_memory /\ on_disk
                /\ th.pc = "d_unlink_scaler" => ~model_exists /\ in_memory /\ on_disk
                /\ th.pc = "d_del" => ~model_exists /\ ~scaler_exists /\ in_memory /\ on_disk
                /\ th.pc = "d_save" => ~model_exists /\ ~scaler_exists /\ ~in_memory /\ on_disk
                /\ th.pc = "done" => ~model_exists /\ ~scaler_exists /\ ~in_memory /\ ~on_disk
                /\ ~in_memory => ~model_exists /\ ~scaler_exists

\* delete_version("V1") about to persist: the files of V1 and its entry in
\* memory are gone, metadata.json still lists V1.
C20_Witness ==
    /\ threads[1].op = "delete"
    /\ threads[1].pc = "d_save"
    /\ threads[1].version_name = FormatV(1)
    /\ FormatV(1) \in ever_registered
    /\ FormatV(1) \notin Keys(metadata.versions)
    /\ FormatV(1) \in Keys(metadata_file.content.versions)
    /\ Path(VersionsDir, ModelFilename(FormatV(1))) \notin DOMAIN files


\* The paths whose file differs between the file systems before and after: written
\* (created or given another content) and removed.
Written(before, after) ==
    {p \in DOMAIN after : p \notin DOMAIN before \/ before[p] # after[p]}

Removed(before, after) == DOMAIN before \ DOMAIN after

\* The two artifact paths a version named name has under the versions directory.
VersionedPair(name) ==
    {Path(VersionsDir, ModelFilename(name)), Path(VersionsDir, ScalerFilename(name))}

\* C21: a call leaves the artifact pair of every version that is registered
\* before and after it as it was; retrain_incremental writes no file but the two
\* of the name it mints, which is not registered when it writes; a file is
\* removed only by delete_version of the version it belongs to, and the files
\* of "Original" are never removed.
C21_ArtifactsImmutable ==
    LET before == last.pre.files
        kept == Keys(last.pre.metadata.versions) \cap Keys(metadata.versions)
        minted == get_next_version_number(last.pre.metadata)
    IN  /\ \A n \in kept : \A kind \in {"model", "scaler"} :
               LET p == ArtifactPath(last.pre.metadata.versions, n, kind)
               IN  p \in DOMAIN before => (p \in DOMAIN files /\ files[p] = before[p])
        /\ last.op = "retrain" =>
               /\ Written(before, files) \subseteq VersionedPair(minted)
               /\ minted \notin Keys(last.pre.metadata.versions)
        /\ last.op # "retrain" => Written(before, files) = {}
        /\ Removed(before, files) # {} =>
               /\ last.op = "delete" /\ last.ret = "True"
               /\ Removed(before, files) \subseteq VersionedPair(last.name)
               /\ last.name \notin Keys(metadata.versions)
        /\ {MODEL_PATH, SCALER_PATH} \subseteq DOMAIN files
        /\ files[MODEL_PATH] = BaseFiles[MODEL_PATH]
        /\ files[SCALER_PATH] = BaseFiles[SCALER_PATH]

\* A retrain that minted V2 with V1 registered: the pair of V1 is as the first
\* retrain dumped it, the pair of V2 is new.
C21_Witness ==
    /\ RetrainSucceeded
    /\ last.result.version = FormatV(2)
    /\ FormatV(1) \in Keys(last.pre.metadata.versions)
    /\ files[Path(VersionsDir, ModelFilename(FormatV(1)))] = Fitted("model", BaseCount + 1)
    /\ Written(last.pre.files, files) = VersionedPair(FormatV(2))


\* C23: switch_version changes current_version and, by rewriting metadata.json
\* from the registry in memory, its persisted copy, and nothing else: every
\* record of the registry, every artifact file, the incremental table
\* and the model and scaler main.py has cached are as before the call, so after
\* a switch with no reload the cache still holds the model cached before; a
\* call returning False changes nothing.
C23_SwitchVersionFrame ==
    last.op = "switch" =>
        /\ metadata.versions = last.pre.metadata.versions
        /\ files = last.pre.files
        /\ training_data_file = last.pre.training_data_file
        /\ model = last.pre_model
        /\ scaler = last.pre_scaler
        /\ last.ret = "True" =>
               /\ metadata.current_version = last.name
               /\ metadata_file.exists
               /\ metadata_file.content = metadata
        /\ last.ret = "False" =>
               /\ metadata = last.pre.metadata
               /\ metadata_file = last.pre.metadata_file

\* switch_version("Original") while the model of V1 is cached: the registry
\* names "Original", in memory and on disk, and the cache holds the model of V1.
C23_Witness ==
    /\ last.op = "switch"
    /\ last.ret = "True"
    /\ last.name = Original
    /\ last.pre.metadata.current_version = FormatV(1)
    /\ metadata_file.content.current_version = Original
    /\ model = Fitted("model", BaseCount + 1)
    /\ model # files[MODEL_PATH]


\* C26: when the artifacts of the current version cannot be loaded,
\* retrain_incremental raises before it appends: the incremental table, the
\* registry in memory and on disk and every artifact file are as before the call.
C26_UnloadableCurrentLeavesAll ==
    last.op = "retrain_model" =>
        /\ ~load_model_and_scaler(last.pre, None).ok =>
               (last.ret = "raise" /\ last.raised_at = "load")
        /\ last.raised_at = "load" =>
               /\ training_data_file = last.pre.training_data_file
               /\ metadata = last.pre.metadata
               /\ metadata_file = last.pre.metadata_file
               /\ files = last.pre.files
               /\ response.status = 500

\* POST /retrain with models/model.joblib missing: 500, and no table written.
C26_Witness ==
    /\ last.op = "retrain_model"
    /\ MODEL_PATH \notin DOMAIN last.pre.files
    /\ last.pre.metadata.current_version = Original
    /\ last.raised_at = "load"
    /\ response.status = 500
    /\ ~training_data_file.exists


\* C27: the incremental_samples a successful retrain records and returns is the
\* number of retrain calls so far, failed ones included, that appended their
\* sample, this call included: a sample a failed attempt appended is counted and
\* trained on, and the same sample passed again is appended again.
C27_IncrementalSamplesCountsAppends ==
    RetrainSucceeded =>
        LET n == prev_retrain.appended + 1
            rows == IncrementalRows(training_data_file)
        IN  /\ last.result.incremental_samples = n
            /\ Info(metadata.versions, last.result.version).incremental_samples = n
            /\ last.result.training_samples = BaseCount + n
            /\ Len(rows) = n
            /\ rows[n] = NewRow(last.new_data, last.label)
            /\ SubSeq(rows, 1, n - 1) = IncrementalRows(last.pre.training_data_file)

\* The first successful retrain, after an attempt with the same sample that
\* failed once the row was written: V1 records two samples, the same row twice.
C27_Witness ==
    /\ RetrainSucceeded
    /\ ~prev_retrain.result.success
    /\ prev_retrain.appended = 1
    /\ last.result.version = FormatV(1)
    /\ last.result.incremental_samples = 2
    /\ IncrementalRows(training_data_file)[1] = IncrementalRows(training_data_file)[2]


\* C28: delete_version never changes current_version, the record or the
\* artifact files of a version other than the one named, or the incremental
\* table; a call that returns False changes nothing: the registry in memory,
\* metadata.json and the artifact files are as before.
C28_DeleteVersionFrame ==
    last.op = "delete" =>
        /\ metadata.current_version = last.pre.metadata.current_version
        /\ training_data_file = last.pre.training_data_file
        /\ Del(metadata.versions, last.name) = Del(last.pre.metadata.versions, last.name)
        /\ \A p \in (DOMAIN files \cup DOMAIN last.pre.files) \ VersionedPair(last.name) :
               /\ p \in DOMAIN files
               /\ p \in DOMAIN last.pre.files
               /\ files[p] = last.pre.files[p]
        /\ last.ret = "False" =>
               /\ metadata = last.pre.metadata
               /\ metadata_file = last.pre.metadata_file
               /\ files = last.pre.files
        /\ last.ret \in {"True", "False"}

\* delete_version("V1") with V2 current: V2 stays current, its record and its
\* two files stay, the table keeps its two rows.
C28_Witness ==
    /\ last.op = "delete"
    /\ last.ret = "True"
    /\ last.name = FormatV(1)
    /\ metadata.current_version = FormatV(2)
    /\ Keys(metadata.versions) = {Original, FormatV(2)}
    /\ VersionedPair(FormatV(2)) \subseteq DOMAIN files
    /\ VersionedPair(FormatV(1)) \cap DOMAIN files = {}
    /\ TableRows(training_data_file) = 2


\* No thread is inside a call.
Quiescent == \A t \in Threads : threads[t].pc \in {"idle", "done"}

\* C29: however a delete_version(x) interleaves with a switch_version(x) or
\* with a retrain, once the calls have returned current_version names a
\* version that has its registry entry and its two artifact files.
C29_CurrentSurvivesInterleaving ==
    Quiescent =>
        /\ metadata.current_version \in Keys(metadata.versions)
        /\ load_model_and_scaler(Cur, None).ok


\* C30: in every state of the serving process the cached model and the
\* cached scaler, when there is one, are the two artifact files of one
\* registered version.
C30_CachedPairFromOneVersion ==
    scaler # NoObject =>
        \E n \in Keys(metadata.versions) :
            /\ Exists(files, ArtifactPath(metadata.versions, n, "model"))
            /\ Exists(files, ArtifactPath(metadata.versions, n, "scaler"))
            /\ model = files[ArtifactPath(metadata.versions, n, "model")]
            /\ scaler = files[ArtifactPath(metadata.versions, n, "scaler")]


\* C22: when POST /models/switch or POST /retrain answers 200, the model and
\* the scaler the process has cached are the artifacts of the version
\* get_current_version() names, the version of the response: its model file,
\* and its scaler file (no scaler when that version has no scaler file).
C22_CacheIsCurrentAfterSuccess ==
    (last.op \in {"switch_model_version", "retrain_model"} /\ response.status = 200) =>
        LET v == get_current_version(metadata)
            model_path == ArtifactPath(metadata.versions, v, "model")
            scaler_path == ArtifactPath(metadata.versions, v, "scaler")
        IN  /\ response.version = v
            /\ Has(metadata.versions, v)
            /\ Exists(files, model_path)
            /\ model = files[model_path]
            /\ scaler = IF Exists(files, scaler_path) THEN files[scaler_path] ELSE NoObject


CacheChanged == model # last.pre_model \/ scaler # last.pre_scaler

\* C24: a predict or predict_batch request that finds a model cached leaves
\* the cached model and scaler as they were; after startup the cache changes
\* only in a predict request that found no model cached, in a switch request
\* whose switch_version returned True and in a retrain request whose
\* retrain_incremental succeeded. A switch to an unknown version answers 404
\* and leaves the cache alone.
C24_CacheChangesOnlyByReload ==
    /\ (last.op \in {"predict", "predict_batch"} /\ last.pre_model # NoObject) => ~CacheChanged
    /\ (last.op = "switch_model_version" /\ last.ret # "True")
           => (~CacheChanged /\ response.status = 404)
    /\ (last.op = "retrain_model" /\ last.ret # "ok") => ~CacheChanged
    /\ CacheChanged =>
           \/ last.op \in {"predict", "predict_batch"} /\ last.pre_model = NoObject
           \/ last.op = "switch_model_version" /\ last.ret = "True"
           \/ last.op = "retrain_model" /\ last.ret = "ok"

\* A batch answered from a cached model of "Original" while the current
\* version is a retrained one whose reload fell back.
C24_Witness ==
    /\ last.op = "predict_batch"
    /\ response.status = 200
    /\ response.count > 0
    /\ last.pre_model = Fitted("model", BaseCount)
    /\ model = last.pre_model
    /\ get_current_version(metadata) # Original

\* C25: a predict_batch request answered 200 returns one prediction per row
\* of the request, in the order of the rows, with count the number of rows,
\* every row evaluated with the one model and scaler cached when the request
\* ends; when a row fails the request is answered 500 with no list.
C25_BatchAllOrNothing ==
    last.op = "predict_batch" =>
        LET features_list == last.new_data
            failed == Raises(features_list)
        IN  /\ response.status = 200 =>
                /\ ~failed
                /\ response.count = Len(features_list)
                /\ Len(response.predictions) = Len(features_list)
                /\ \A i \in 1..Len(features_list) :
                       /\ response.predictions[i].potability = features_list[i].prediction
                       /\ response.predictions[i].model = model
                       /\ response.predictions[i].scaler = scaler
            /\ (failed /\ response.status # 503) => response.status = 500
            /\ response.status # 200 => (response.predictions = <<>> /\ response.count = 0)

\* Two rows with different classes answered in order.
C25_Witness ==
    /\ last.op = "predict_batch"
    /\ response.status = 200
    /\ response.count = 2
    /\ response.predictions[1].potability = 1
    /\ response.predictions[2].potability = 0

====
